---- MODULE Spec2Model ----
(***************************************************************************)
(* Model of the feeds-and-speeds calculator (src/src/main.rs): the         *)
(* material catalog, feed_per_flute, the GlobalState queries, the four     *)
(* event callbacks of the App component and what App renders.              *)
(*                                                                         *)
(* f64 values are modelled as IEEE-754 classes (NaN, signed infinity,      *)
(* signed zero, finite non-zero) with the finite values held as exact      *)
(* rationals: rounding of the last bit is not modelled, the special values *)
(* and the order of the operations are.                                    *)
(***************************************************************************)
EXTENDS Integers, Sequences, FiniteSets, TLC

VARIABLES state, event, trip

vars == <<state, event, trip>>

(***************************************************************************)
(* Exact rationals <<n, d>>, d > 0, in lowest terms.                       *)
(***************************************************************************)
Abs(n) == IF n < 0 THEN -n ELSE n

RECURSIVE Gcd(_, _)
Gcd(a, b) == IF b = 0 THEN a ELSE Gcd(b, a % b)

Norm(n, d) ==
    LET s == IF d < 0 THEN -1 ELSE 1
        g == Gcd(Abs(n), Abs(d))
    IN  <<(s * n) \div g, (s * d) \div g>>

RInt(n) == <<n, 1>>

RMul(a, b) ==
    LET g1 == Gcd(Abs(a[1]), b[2])
        g2 == Gcd(Abs(b[1]), a[2])
    IN  IF a[1] = 0 \/ b[1] = 0 THEN <<0, 1>>
        ELSE <<(a[1] \div g1) * (b[1] \div g2), (a[2] \div g2) * (b[2] \div g1)>>

RInv(a) == Norm(a[2], a[1])

RAdd(a, b) ==
    LET g == Gcd(a[2], b[2])
    IN  Norm(a[1] * (b[2] \div g) + b[1] * (a[2] \div g), (a[2] \div g) * b[2])

RNeg(a) == <<-a[1], a[2]>>

RLt(a, b) == a[1] * b[2] < b[1] * a[2]

(***************************************************************************)
(* f64: the value classes of IEEE-754 and the arithmetic on them.          *)
(***************************************************************************)
NaN == [k |-> "nan", neg |-> FALSE, r |-> <<0, 1>>]

Inf(neg) == [k |-> "inf", neg |-> neg, r |-> <<0, 1>>]

Zero(neg) == [k |-> "zero", neg |-> neg, r |-> <<0, 1>>]

\* A rational as an f64: zero carries the sign it is given.
FOfRat(r, negzero) ==
    IF r[1] = 0 THEN Zero(negzero) ELSE [k |-> "fin", neg |-> r[1] < 0, r |-> r]

F(n) == FOfRat(RInt(n), FALSE)

\* A decimal literal n / scale, as 0.0275 == Dec(275, 10000).
Dec(n, scale) == FOfRat(Norm(n, scale), FALSE)

IsNan(x) == x.k = "nan"

IsFinite(x) == x.k \in {"zero", "fin"}

FNeg(x) ==
    CASE x.k = "nan" -> NaN
      [] x.k = "fin" -> FOfRat(RNeg(x.r), FALSE)
      [] OTHER -> [x EXCEPT !.neg = ~x.neg]

FMul(x, y) ==
    LET neg == x.neg /= y.neg
    IN  CASE IsNan(x) \/ IsNan(y) -> NaN
          [] (x.k = "inf" /\ y.k = "zero") \/ (x.k = "zero" /\ y.k = "inf") -> NaN
          [] x.k = "inf" \/ y.k = "inf" -> Inf(neg)
          [] x.k = "zero" \/ y.k = "zero" -> Zero(neg)
          [] OTHER -> FOfRat(RMul(x.r, y.r), FALSE)

FDiv(x, y) ==
    LET neg == x.neg /= y.neg
    IN  CASE IsNan(x) \/ IsNan(y) -> NaN
          [] x.k = "inf" /\ y.k = "inf" -> NaN
          [] x.k = "zero" /\ y.k = "zero" -> NaN
          [] x.k = "inf" -> Inf(neg)
          [] y.k = "inf" -> Zero(neg)
          [] y.k = "zero" -> Inf(neg)
          [] x.k = "zero" -> Zero(neg)
          [] OTHER -> FOfRat(RMul(x.r, RInv(y.r)), FALSE)

FAdd(x, y) ==
    CASE IsNan(x) \/ IsNan(y) -> NaN
      [] x.k = "inf" /\ y.k = "inf" -> IF x.neg = y.neg THEN x ELSE NaN
      [] x.k = "inf" -> x
      [] y.k = "inf" -> y
      [] x.k = "zero" /\ y.k = "zero" -> Zero(x.neg /\ y.neg)
      [] x.k = "zero" -> y
      [] y.k = "zero" -> x
      [] OTHER -> FOfRat(RAdd(x.r, y.r), FALSE)

FSub(x, y) == FAdd(x, FNeg(y))

\* The comparisons of f64: every comparison with NaN but != is false, and
\* the two zeros are equal.
FLt(x, y) ==
    CASE IsNan(x) \/ IsNan(y) -> FALSE
      [] x.k = "inf" -> x.neg /\ ~(y.k = "inf" /\ y.neg)
      [] y.k = "inf" -> ~y.neg
      [] OTHER -> RLt(x.r, y.r)

FEq(x, y) ==
    CASE IsNan(x) \/ IsNan(y) -> FALSE
      [] x.k = "inf" \/ y.k = "inf" -> x = y
      [] OTHER -> x.r = y.r

FNe(x, y) == ~FEq(x, y)

FGt(x, y) == FLt(y, x)

FGe(x, y) == FLt(y, x) \/ FEq(x, y)

FLe(x, y) == FLt(x, y) \/ FEq(x, y)

(***************************************************************************)
(* Material and its catalog.                                               *)
(***************************************************************************)
Material == {"Aluminium", "Plastic", "Copper", "WoodSoft", "WoodHard", "WoodMdf"}

Range(s, e) == [start |-> s, end |-> e]

Entry(d, s, e) == [d |-> F(d), range |-> Range(Dec(s, 10000), Dec(e, 10000))]

cut_speed_of(material) ==
    CASE material = "Aluminium" -> Range(F(100), F(450))
      [] material = "Plastic" -> Range(F(200), F(400))
      [] material = "Copper" -> Range(F(80), F(200))
      [] material = "WoodSoft" -> Range(F(300), F(600))
      [] material = "WoodHard" -> Range(F(200), F(450))
      [] material = "WoodMdf" -> Range(F(200), F(450))

\* The ranges are written in 1/10000 mm: 0.005..0.015 is Entry(4, 50, 150).
feed_table(material) ==
    CASE material = "Aluminium" ->
           <<Entry(4, 50, 150), Entry(6, 150, 250), Entry(8, 200, 300),
             Entry(10, 250, 380), Entry(12, 300, 500)>>
      [] material = "Plastic" ->
           <<Entry(4, 200, 500), Entry(6, 400, 900), Entry(8, 400, 1000),
             Entry(10, 500, 1500), Entry(12, 800, 1800)>>
      [] material = "Copper" ->
           <<Entry(4, 100, 200), Entry(6, 150, 250), Entry(8, 300, 570),
             Entry(10, 350, 650), Entry(12, 400, 800)>>
      [] material = "WoodSoft" ->
           <<Entry(4, 200, 400), Entry(6, 250, 550), Entry(8, 370, 700),
             Entry(10, 450, 850), Entry(12, 500, 950)>>
      [] material = "WoodHard" ->
           <<Entry(4, 150, 350), Entry(6, 200, 500), Entry(8, 300, 650),
             Entry(10, 450, 800), Entry(12, 500, 900)>>
      [] material = "WoodMdf" ->
           <<Entry(4, 220, 440), Entry(6, 275, 605), Entry(8, 407, 770),
             Entry(10, 495, 935), Entry(12, 550, 1050)>>

(***************************************************************************)
(* feed_per_flute: the scan of the feed table.                             *)
(***************************************************************************)
\* Variant: the first test with > for >=.
AtOrBelowFirstStrict(first_entry, diameter) == FGt(first_entry.d, diameter)

\* The first test of the function: the diameter is at or below the first entry.
AtOrBelowFirst(first_entry, diameter) == FGe(first_entry.d, diameter)

\* The interpolation between last_entry and entry, as the code writes it.
Interpolate(last_entry, entry, diameter) ==
    LET left_weight == FDiv(FSub(entry.d, last_entry.d), FSub(diameter, last_entry.d))
        right_weight == FSub(F(1), left_weight)
        min_value == FAdd(FMul(last_entry.range.start, left_weight),
                          FMul(entry.range.start, right_weight))
        max_value == FAdd(FMul(last_entry.range.end, left_weight),
                          FMul(entry.range.end, right_weight))
    IN  Range(min_value, max_value)

\* Variant: last_entry is never advanced.
AdvanceLastStale(last_entry, entry) == last_entry

\* last_entry = entry, at the end of the loop body.
AdvanceLast(last_entry, entry) == entry

\* The for loop over the entries after the first, from index i on.
RECURSIVE ScanFeedTable(_, _, _, _)
ScanFeedTable(table, i, last_entry, diameter) ==
    IF i > Len(table) THEN last_entry.range
    ELSE LET entry == table[i]
         IN  IF FEq(entry.d, diameter) THEN entry.range
             ELSE IF FGt(entry.d, diameter)
                  THEN Interpolate(last_entry, entry, diameter)
                  ELSE ScanFeedTable(table, i + 1, AdvanceLast(last_entry, entry), diameter)

feed_per_flute(material, diameter) ==
    LET table == feed_table(material)
        first_entry == table[1]
    IN  IF AtOrBelowFirst(first_entry, diameter) THEN first_entry.range
        ELSE ScanFeedTable(table, 2, first_entry, diameter)

(***************************************************************************)
(* GlobalState and its queries.                                            *)
(***************************************************************************)
\* std::f64::consts::PI, as the rational 355/113.
PI == Dec(355, 113)

GlobalStateDefault ==
    [material |-> "WoodSoft",
     diameter |-> F(8),
     diameter_error |-> FALSE,
     flute_count |-> 2,
     flute_count_error |-> FALSE,
     min_rpm |-> F(3000),
     max_rpm |-> F(24000),
     selected_rpm |-> F(13000)]

set_material(s, material) == [s EXCEPT !.material = material]

\* Variant: the setter writes the neighbouring field.
set_selected_rpm_wrong_field(s, selected_rpm) == [s EXCEPT !.diameter = selected_rpm]

set_selected_rpm(s, selected_rpm) == [s EXCEPT !.selected_rpm = selected_rpm]

set_diameter(s, diameter) == [s EXCEPT !.diameter = diameter]

set_diameter_error(s, diameter_error) == [s EXCEPT !.diameter_error = diameter_error]

set_flute_count(s, flute_count) == [s EXCEPT !.flute_count = flute_count]

set_flute_count_error(s, flute_count_error) ==
    [s EXCEPT !.flute_count_error = flute_count_error]

rpm_range(s) ==
    LET diameter == s.diameter
        vc_range == cut_speed_of(s.material)
        rpm_min == FDiv(FMul(vc_range.start, F(1000)), FMul(diameter, PI))
        rpm_max == FDiv(FMul(vc_range.end, F(1000)), FMul(diameter, PI))
    IN  Range(rpm_min, rpm_max)

cut_speed(s) == FDiv(FMul(FMul(s.diameter, PI), s.selected_rpm), F(1000))

feed_range(s) ==
    LET fpf == feed_per_flute(s.material, s.diameter)
    IN  Range(FMul(FMul(s.selected_rpm, F(s.flute_count)), fpf.start),
              FMul(FMul(s.selected_rpm, F(s.flute_count)), fpf.end))

(***************************************************************************)
(* Texts are sequences of one-character strings.  str::parse::<f64> and    *)
(* str::parse::<u8> are modelled by the grammar the standard library       *)
(* documents for them.                                                     *)
(***************************************************************************)
DigitChars == <<"0", "1", "2", "3", "4", "5", "6", "7", "8", "9">>

IsDigit(c) == \E i \in 1..Len(DigitChars) : DigitChars[i] = c

DigitVal(c) == (CHOOSE i \in 1..Len(DigitChars) : DigitChars[i] = c) - 1

AllDigits(t) == \A i \in 1..Len(t) : IsDigit(t[i])

\* The value of a sequence of digits, most significant first.
RECURSIVE DigitsVal(_)
DigitsVal(t) ==
    IF t = <<>> THEN 0
    ELSE DigitsVal(SubSeq(t, 1, Len(t) - 1)) * 10 + DigitVal(t[Len(t)])

RECURSIVE Pow10(_)
Pow10(n) == IF n = 0 THEN 1 ELSE 10 * Pow10(n - 1)

\* ASCII lower case of the letters the f64 grammar names.
LowerChar(c) ==
    CASE c = "I" -> "i" [] c = "N" -> "n" [] c = "F" -> "f" [] c = "T" -> "t"
      [] c = "Y" -> "y" [] c = "A" -> "a" [] c = "E" -> "e" [] OTHER -> c

Lower(t) == [i \in 1..Len(t) |-> LowerChar(t[i])]

\* The index of the first occurrence of c in t, or 0.
IndexOf(t, c) ==
    IF \E i \in 1..Len(t) : t[i] = c
    THEN CHOOSE i \in 1..Len(t) : t[i] = c /\ \A j \in 1..(i - 1) : t[j] /= c
    ELSE 0

ParseOk(v) == [ok |-> TRUE, f |-> v, n |-> 0]

ParseErr == [ok |-> FALSE, f |-> Zero(FALSE), n |-> 0]

\* Number ::= ( Digit+ | Digit+ '.' Digit* | Digit* '.' Digit+ ) Exp?
\* Exp ::= 'e' Sign? Digit+
ParseNumber(neg, t) ==
    LET e == IndexOf(t, "e")
        mant == IF e = 0 THEN t ELSE SubSeq(t, 1, e - 1)
        exp == IF e = 0 THEN <<>> ELSE SubSeq(t, e + 1, Len(t))
        expneg == exp /= <<>> /\ exp[1] = "-"
        expdig == IF exp /= <<>> /\ exp[1] \in {"+", "-"} THEN Tail(exp) ELSE exp
        dot == IndexOf(mant, ".")
        int == IF dot = 0 THEN mant ELSE SubSeq(mant, 1, dot - 1)
        frac == IF dot = 0 THEN <<>> ELSE SubSeq(mant, dot + 1, Len(mant))
        wellformed == /\ AllDigits(int) /\ AllDigits(frac)
                      /\ Len(int) + Len(frac) > 0
                      /\ (e /= 0 => (expdig /= <<>> /\ AllDigits(expdig)))
        m == Norm(DigitsVal(int \o frac), Pow10(Len(frac)))
        p == RInt(Pow10(DigitsVal(expdig)))
        v == IF expneg THEN RMul(m, RInv(p)) ELSE RMul(m, p)
    IN  IF wellformed THEN ParseOk(FOfRat(IF neg THEN RNeg(v) ELSE v, neg))
        ELSE ParseErr

\* Float ::= Sign? ( 'inf' | 'infinity' | 'nan' | Number ), letters in any case.
ParseF64(text) ==
    LET signed == text /= <<>> /\ text[1] \in {"+", "-"}
        neg == text /= <<>> /\ text[1] = "-"
        rest == Lower(IF signed THEN Tail(text) ELSE text)
    IN  CASE rest = <<>> -> ParseErr
          [] rest \in {<<"i", "n", "f">>, <<"i", "n", "f", "i", "n", "i", "t", "y">>} ->
               ParseOk(Inf(neg))
          [] rest = <<"n", "a", "n">> -> ParseOk(NaN)
          [] OTHER -> ParseNumber(neg, rest)

U8Max == 255

\* u8: an optional '+', then digits; a '-' is an invalid digit, a value
\* above u8::MAX an overflow (-1 here).
RECURSIVE U8Accumulate(_)
U8Accumulate(t) ==
    IF t = <<>> THEN 0
    ELSE LET high == U8Accumulate(SubSeq(t, 1, Len(t) - 1))
             v == high * 10 + DigitVal(t[Len(t)])
         IN  IF high < 0 \/ v > U8Max THEN -1 ELSE v

ParseU8(text) ==
    LET digits == IF text /= <<>> /\ text[1] = "+" THEN Tail(text) ELSE text
    IN  IF digits = <<>> \/ ~AllDigits(digits) \/ U8Accumulate(digits) < 0 THEN ParseErr
        ELSE [ok |-> TRUE, f |-> Zero(FALSE), n |-> U8Accumulate(digits)]

(***************************************************************************)
(* format!: "{:.p}" of an f64 and "{}" of a u8.                            *)
(***************************************************************************)
\* |r| * 10^p rounded to an integer, ties to even.
RoundScaled(r, p) ==
    LET s == RMul(<<Abs(r[1]), r[2]>>, RInt(Pow10(p)))
        q == s[1] \div s[2]
        rem2 == 2 * (s[1] % s[2])
    IN  IF rem2 > s[2] \/ (rem2 = s[2] /\ q % 2 = 1) THEN q + 1 ELSE q

\* The text of the value, as its kind, sign and digits at precision p.
FormatFixed(x, p) ==
    CASE x.k = "nan" -> [k |-> "NaN", neg |-> FALSE, digits |-> 0, prec |-> p]
      [] x.k = "inf" -> [k |-> "inf", neg |-> x.neg, digits |-> 0, prec |-> p]
      [] OTHER -> [k |-> "num", neg |-> x.neg, digits |-> RoundScaled(x.r, p), prec |-> p]

RECURSIVE FormatU8(_)
FormatU8(n) ==
    IF n < 10 THEN <<DigitChars[n + 1]>>
    ELSE FormatU8(n \div 10) \o <<DigitChars[(n % 10) + 1]>>

(***************************************************************************)
(* What App renders: a function of the state the use_state hook holds,     *)
(* evaluated again after every state.set.                                  *)
(***************************************************************************)
DisplayName(material) ==
    CASE material = "Aluminium" -> "Aluminium"
      [] material = "Plastic" -> "Kunststoff"
      [] material = "Copper" -> "Kupfer / Messing"
      [] material = "WoodSoft" -> "Holz weich"
      [] material = "WoodHard" -> "Holz hart"
      [] material = "WoodMdf" -> "Holz MDF"

Shown(lo, hi) == [shown |-> TRUE, lo |-> lo, hi |-> hi]

NotShown == [shown |-> FALSE, lo |-> FormatFixed(Zero(FALSE), 0), hi |-> FormatFixed(Zero(FALSE), 0)]

InputState(error) == IF error THEN "Error" ELSE "Default"

\* The Alert under the selected speed.
RpmResult(s) ==
    LET range == rpm_range(s)
    IN  IF FLt(s.selected_rpm, range.start) THEN "Drehzahl zu niedrig"
        ELSE IF FGt(s.selected_rpm, range.end) THEN "Drehzahl zu hoch"
        ELSE "none"

\* The "Vorschub" group.
FeedResult(s) ==
    LET result == feed_range(s)
    IN  IF ~(s.diameter_error \/ s.flute_count_error)
        THEN Shown(FormatFixed(result.start, 0), FormatFixed(result.end, 0))
        ELSE NotShown

\* The "Schnittgeschwindigkeit" readout of the "Drehzahl" group.
CutSpeedReadout(s) ==
    LET text == FormatFixed(cut_speed(s), 0)
    IN  Shown(text, text)

Render(s) ==
    LET range == rpm_range(s)
        vc == cut_speed_of(s.material)
        zf == feed_per_flute(s.material, s.diameter)
    IN  [placeholder |-> DisplayName(s.material),
         vc |-> Shown(FormatFixed(vc.start, 0), FormatFixed(vc.end, 0)),
         diameter_str |-> FormatFixed(s.diameter, 2),
         diameter_input_state |-> InputState(s.diameter_error),
         zf |-> Shown(FormatFixed(zf.start, 3), FormatFixed(zf.end, 3)),
         rpm_range |-> Shown(FormatFixed(range.start, 0), FormatFixed(range.end, 0)),
         slide_pos |-> IF IsNan(s.selected_rpm) THEN "None" ELSE "Some",
         selected_rpm |-> FormatFixed(s.selected_rpm, 0),
         cut_speed |-> CutSpeedReadout(s),
         rpm_result |-> RpmResult(s),
         flute_count_str |-> FormatU8(s.flute_count),
         flute_count_input_state |-> InputState(s.flute_count_error),
         result |-> FeedResult(s)]

(***************************************************************************)
(* The inputs of the callbacks.                                            *)
(***************************************************************************)
NumDiameterTexts == 8

NumFluteTexts == 4

SliderTicks == 1

DiameterTexts ==
    << <<"a", "b", "c">>, <<"1", "0", ".", "5">>, <<"N", "a", "N">>, <<"8">>,
       <<"i", "n", "f">>, <<"-", "0">>, <<"5">>, <<"2", ".", "e", "1">>, <<>>,
       <<".">> >>

FluteTexts ==
    << <<"a", "b", "c">>, <<"3">>, <<"2", "5", "6">>, <<"0", "2">>, <<"-", "1">>,
       <<"+", "4">>, <<>> >>

Prefix(texts, n) == {texts[i] : i \in 1..(IF n < Len(texts) THEN n ELSE Len(texts))}

\* The positions the slider reports between the machine's limits.
SliderValues(s) ==
    {FAdd(s.min_rpm, FDiv(FMul(F(k), FSub(s.max_rpm, s.min_rpm)), F(SliderTicks))) :
        k \in 0..SliderTicks}

(***************************************************************************)
(* The callbacks of App.  Each returns the state it leaves and whether it  *)
(* called state.set.                                                       *)
(***************************************************************************)
Outcome(s, replaced) == [state |-> s, replaced |-> replaced]

\* Variant: the clamped policy, selected_rpm pulled into the new rpm_range().
on_change_material_clamped(s, value) ==
    IF s.material /= value
    THEN LET new_state == set_material(s, value)
             range == rpm_range(new_state)
             clamped == IF FLt(s.selected_rpm, range.start) THEN range.start
                        ELSE IF FGt(s.selected_rpm, range.end) THEN range.end
                        ELSE s.selected_rpm
         IN  Outcome(set_selected_rpm(new_state, clamped), TRUE)
    ELSE Outcome(s, FALSE)

on_change_material(s, value) ==
    IF s.material /= value
    THEN Outcome(set_material(s, value), TRUE)
    ELSE Outcome(s, FALSE)

on_change_rpm(s, value) ==
    IF FNe(s.selected_rpm, value)
    THEN Outcome(set_selected_rpm(s, value), TRUE)
    ELSE Outcome(s, FALSE)

\* Variant: a failed parse commits the default value of f64.
on_change_diameter_commits_default(s, parsed) ==
    IF parsed.ok
    THEN IF FNe(s.diameter, parsed.f) \/ s.diameter_error
         THEN Outcome(set_diameter_error(set_diameter(s, parsed.f), FALSE), TRUE)
         ELSE Outcome(s, FALSE)
    ELSE IF ~s.diameter_error
         THEN Outcome(set_diameter_error(set_diameter(s, Zero(FALSE)), TRUE), TRUE)
         ELSE Outcome(s, FALSE)

on_change_diameter(s, parsed) ==
    IF parsed.ok
    THEN IF FNe(s.diameter, parsed.f) \/ s.diameter_error
         THEN Outcome(set_diameter_error(set_diameter(s, parsed.f), FALSE), TRUE)
         ELSE Outcome(s, FALSE)
    ELSE IF ~s.diameter_error
         THEN Outcome(set_diameter_error(s, TRUE), TRUE)
         ELSE Outcome(s, FALSE)

\* Variant: a successful parse does not clear the error flag.
on_change_flute_count_sticky(s, parsed) ==
    IF parsed.ok
    THEN IF s.flute_count /= parsed.n \/ s.flute_count_error
         THEN Outcome(set_flute_count(s, parsed.n), TRUE)
         ELSE Outcome(s, FALSE)
    ELSE IF ~s.flute_count_error
         THEN Outcome(set_flute_count_error(s, TRUE), TRUE)
         ELSE Outcome(s, FALSE)

on_change_flute_count(s, parsed) ==
    IF parsed.ok
    THEN IF s.flute_count /= parsed.n \/ s.flute_count_error
         THEN Outcome(set_flute_count_error(set_flute_count(s, parsed.n), FALSE), TRUE)
         ELSE Outcome(s, FALSE)
    ELSE IF ~s.flute_count_error
         THEN Outcome(set_flute_count_error(s, TRUE), TRUE)
         ELSE Outcome(s, FALSE)

(***************************************************************************)
(* History: the last callback that ran (its argument, the state it found   *)
(* and whether it called state.set), and the material round trip in        *)
(* progress (the material and rpm_range() the trip left from).             *)
(***************************************************************************)
Event(kind, parsed, before, replaced) ==
    [kind |-> kind, ok |-> parsed.ok, f |-> parsed.f, n |-> parsed.n,
     before |-> before, replaced |-> replaced]

NoTrip == [phase |-> "idle", material |-> "WoodSoft", range |-> Range(Zero(FALSE), Zero(FALSE))]

TripAfterMaterial(s, value) ==
    IF s.material = value THEN trip
    ELSE IF trip.phase = "away" /\ trip.material = value
         THEN [trip EXCEPT !.phase = "back"]
         ELSE [phase |-> "away", material |-> s.material, range |-> rpm_range(s)]

\* What is on the screen.
View == Render(state)

\* The texts offered to the two text inputs, each with what parse makes of it.
DiameterInputs == [text \in Prefix(DiameterTexts, NumDiameterTexts) |-> ParseF64(text)]

FluteInputs == [text \in Prefix(FluteTexts, NumFluteTexts) |-> ParseU8(text)]

Init ==
    /\ state = GlobalStateDefault
    /\ event = Event("init", ParseOk(Zero(FALSE)), GlobalStateDefault, FALSE)
    /\ trip = NoTrip

OnChangeMaterial ==
    \E value \in Material :
        LET out == on_change_material(state, value)
        IN  /\ state' = out.state
            /\ event' = Event("material", ParseOk(Zero(FALSE)), state, out.replaced)
            /\ trip' = TripAfterMaterial(state, value)

OnChangeRpm ==
    \E value \in SliderValues(state) :
        LET out == on_change_rpm(state, value)
        IN  /\ state' = out.state
            /\ event' = Event("rpm", ParseOk(value), state, out.replaced)
            /\ trip' = trip

OnChangeDiameter ==
    \E text \in DOMAIN DiameterInputs :
        LET parsed == DiameterInputs[text]
            out == on_change_diameter(state, parsed)
        IN  /\ state' = out.state
            /\ event' = Event("diameter", parsed, state, out.replaced)
            /\ trip' = IF parsed.ok THEN NoTrip ELSE trip

OnChangeFluteCount ==
    \E text \in DOMAIN FluteInputs :
        LET parsed == FluteInputs[text]
            out == on_change_flute_count(state, parsed)
        IN  /\ state' = out.state
            /\ event' = Event("flute_count", parsed, state, out.replaced)
            /\ trip' = trip

Next ==
    \/ OnChangeMaterial
    \/ OnChangeRpm
    \/ OnChangeDiameter
    \/ OnChangeFluteCount

Spec == Init /\ [][Next]_vars

(***************************************************************************)
(* feed_per_flute over a grid of diameters: every material at every        *)
(* quarter of a millimetre from -1 mm on, and at the special values.       *)
(***************************************************************************)
GridSteps == 56

FeedDiameters ==
    {Dec(k, 4) : k \in -4..GridSteps} \cup {NaN, Inf(FALSE), Inf(TRUE), Zero(TRUE)}

InitFeed ==
    /\ state \in {[GlobalStateDefault EXCEPT !.material = m, !.diameter = d] :
                     m \in Material, d \in FeedDiameters}
    /\ event = Event("init", ParseOk(Zero(FALSE)), state, FALSE)
    /\ trip = NoTrip

NextFeed == OnChangeMaterial

SpecFeed == InitFeed /\ [][NextFeed]_vars

(***************************************************************************)
(* Properties.                                                             *)
(***************************************************************************)

\* C1: commit-on-parse-success.  After a diameter text edit, a text that
\* parses has set diameter to the parsed value and diameter_error to false;
\* a text that does not parse has set diameter_error and left diameter at
\* the value it had before.  The same for flute_count and flute_count_error.
CommitOnParseSuccess ==
    /\ event.kind = "diameter" =>
          IF event.ok
          THEN state.diameter = event.f /\ ~state.diameter_error
          ELSE state.diameter_error /\ state.diameter = event.before.diameter
    /\ event.kind = "flute_count" =>
          IF event.ok
          THEN state.flute_count = event.n /\ ~state.flute_count_error
          ELSE state.flute_count_error /\ state.flute_count = event.before.flute_count

\* A text that failed to parse was entered after 10.5 had been committed.
FailedEditKeepsDiameter ==
    /\ event.kind = "diameter" /\ ~event.ok /\ event.replaced
    /\ state.diameter = Dec(105, 10)
    /\ state.diameter_error

\* C2: the diameter held by the state is never NaN and never infinite.
DiameterAlwaysFinite == IsFinite(state.diameter)

\* C3: no-op suppression.  A callback that finds the value it is given
\* already in the state (and, for the text edits, the error flag already as
\* the edit would leave it) does not call state.set, and every state.set
\* stores a state that differs from the one it replaces.
NoOpSuppression ==
    /\ (event.kind = "diameter" /\ event.ok /\ event.before.diameter = event.f
            /\ ~event.before.diameter_error) => ~event.replaced
    /\ (event.kind = "diameter" /\ ~event.ok /\ event.before.diameter_error)
          => ~event.replaced
    /\ (event.kind = "flute_count" /\ event.ok /\ event.before.flute_count = event.n
            /\ ~event.before.flute_count_error) => ~event.replaced
    /\ (event.kind = "flute_count" /\ ~event.ok /\ event.before.flute_count_error)
          => ~event.replaced
    /\ (event.kind = "material" /\ event.before.material = state.material)
          => ~event.replaced
    /\ (event.kind = "rpm" /\ event.before.selected_rpm = event.f) => ~event.replaced
    /\ event.replaced => state /= event.before

\* C4: while diameter_error or flute_count_error is set, the view shows
\* neither the feed range nor the cutting-speed readout.
DerivedValuesHiddenOnError ==
    (state.diameter_error \/ state.flute_count_error) =>
        (~View.result.shown /\ ~View.cut_speed.shown)

\* C5: every event changes only its own fields; min_rpm and max_rpm are
\* changed by no event, and selected_rpm is not adjusted to rpm_range().
NoCrossFieldEffects ==
    LET b == event.before
    IN  /\ event.kind = "material" => state = [b EXCEPT !.material = state.material]
        /\ event.kind = "diameter" =>
              state = [b EXCEPT !.diameter = state.diameter,
                                !.diameter_error = state.diameter_error]
        /\ event.kind = "flute_count" =>
              state = [b EXCEPT !.flute_count = state.flute_count,
                                !.flute_count_error = state.flute_count_error]
        /\ event.kind = "rpm" => state = [b EXCEPT !.selected_rpm = state.selected_rpm]
        /\ state.min_rpm = b.min_rpm /\ state.max_rpm = b.max_rpm

\* A material change has left selected_rpm above the new rpm_range().
SelectedRpmLeftOutsideRange ==
    /\ event.kind = "material" /\ event.replaced
    /\ FGt(state.selected_rpm, rpm_range(state).end)
    /\ ~FGt(event.before.selected_rpm, rpm_range(event.before).end)

\* C6: a material switch followed by the switch back, with no diameter
\* commit in between, restores rpm_range(); a selected-RPM change, a
\* flute-count edit and a failed diameter edit leave rpm_range() as it was.
RpmRangeRoundTrip ==
    /\ trip.phase = "back" => rpm_range(state) = trip.range
    /\ (event.kind \in {"rpm", "flute_count"} \/ (event.kind = "diameter" /\ ~event.ok))
          => rpm_range(state) = rpm_range(event.before)

\* The material has been switched away and back, and the selected speed
\* changed on the way.
RoundTripCompleted ==
    /\ trip.phase = "back"
    /\ event.kind = "material" /\ event.replaced
    /\ state.material = "Copper"
    /\ rpm_range(state) /= rpm_range(event.before)
    /\ state.selected_rpm /= GlobalStateDefault.selected_rpm

\* C7: feed_per_flute returns the first entry's range at or below the
\* smallest tabulated diameter, the last entry's range at or above the
\* largest, and an entry's own range at its diameter.
FeedClampAndExactHit ==
    LET table == feed_table(state.material)
        d == state.diameter
        r == feed_per_flute(state.material, d)
    IN  /\ FLe(d, table[1].d) => r = table[1].range
        /\ FGe(d, table[Len(table)].d) => r = table[Len(table)].range
        /\ \A i \in 1..Len(table) : FEq(d, table[i].d) => r = table[i].range

\* A material was selected while the diameter is a tabulated one that is
\* neither the smallest nor the largest.
ExactHitInsideTable ==
    /\ event.kind = "material" /\ event.replaced
    /\ state.diameter = F(10)

\* C8: strictly between two adjacent tabulated diameters the result is
\* last.range * left_weight + curr.range * right_weight, with
\* left_weight = (d_curr - d_prev) / (diameter - d_prev), right_weight =
\* 1 - left_weight, of the two entries next to the diameter.
InterpolationFormula ==
    LET table == feed_table(state.material)
        d == state.diameter
        r == feed_per_flute(state.material, d)
    IN  \A i \in 1..(Len(table) - 1) :
            LET last == table[i]
                curr == table[i + 1]
                left_weight == FDiv(FSub(curr.d, last.d), FSub(d, last.d))
                right_weight == FSub(F(1), left_weight)
            IN  (FLt(last.d, d) /\ FLt(d, curr.d)) =>
                    /\ r.start = FAdd(FMul(last.range.start, left_weight),
                                      FMul(curr.range.start, right_weight))
                    /\ r.end = FAdd(FMul(last.range.end, left_weight),
                                    FMul(curr.range.end, right_weight))

\* A material was selected while the diameter lies between the last two
\* tabulated diameters.
BetweenLastTwoEntries ==
    /\ event.kind = "material" /\ event.replaced
    /\ FLt(F(10), state.diameter) /\ FLt(state.diameter, F(12))

\* C9: from every reachable state, one text edit can flip diameter_error
\* and one can flip flute_count_error, each leaving the other flag as it
\* is (so every combination of the flags is reachable from every other),
\* and an edit of one field never changes the other field's flag.
ErrorFlagsIndependent ==
    /\ ENABLED (/\ OnChangeDiameter
                /\ state'.diameter_error /= state.diameter_error
                /\ state'.flute_count_error = state.flute_count_error)
    /\ ENABLED (/\ OnChangeFluteCount
                /\ state'.flute_count_error /= state.flute_count_error
                /\ state'.diameter_error = state.diameter_error)
    /\ event.kind = "diameter" =>
          state.flute_count_error = event.before.flute_count_error
    /\ event.kind = "flute_count" =>
          state.diameter_error = event.before.diameter_error

\* Both flags are set, the diameter's by the last edit.
BothErrorFlagsSet ==
    /\ state.diameter_error /\ state.flute_count_error
    /\ event.kind = "diameter" /\ event.replaced

\* C10: feed_per_flute returns a range with 0 <= start <= end, and so does
\* feed_range() when selected_rpm is finite and not negative.
FeedRangeWellFormed ==
    LET r == feed_per_flute(state.material, state.diameter)
        fr == feed_range(state)
    IN  /\ FLe(F(0), r.start) /\ FLe(r.start, r.end)
        /\ (IsFinite(state.selected_rpm) /\ FGe(state.selected_rpm, F(0))) =>
              (FLe(F(0), fr.start) /\ FLe(fr.start, fr.end))

====
